---- MODULE Spec2Model ----
(***************************************************************************)
(* The Helical Engine v3.1 (helical_kernal.py): one HelicalEngine session  *)
(* driven by a sequence of process_input calls.                            *)
(*                                                                         *)
(* Numbers.  reserves and the execution costs are whole numbers.  inertia  *)
(* is a float that math.log makes fractional: it is kept as a fixed-point  *)
(* integer in units of 1/InertiaScale.  The quality factor q is kept in    *)
(* twentieths (1.0 = 20, 0.5 = 10, 0.1 = 2, 0.05 = 1), and the existence   *)
(* potential e_a as the exact fraction <<numerator, denominator>>.         *)
(*                                                                         *)
(* Besides the session's fields: result is how the last call ended, obs    *)
(* what the scans and the classifier said of its decoded text, calls and   *)
(* executed count the calls made and the calls that reached _execute_task. *)
(* fn_input and fn_output are the argument and the value of a ThreatMonitor *)
(* or classifier function applied on its own (specification SpecPure).     *)
(*                                                                         *)
(* Text.  A text is a sequence of tokens (words or phrases); "x in text"   *)
(* of the source is "some token of the text is x" (after lower-casing      *)
(* where the source lower-cases).  The character distribution of a text is *)
(* not modelled: its Shannon entropy is an input drawn with the tokens.    *)
(***************************************************************************)
EXTENDS Integers, Sequences, FiniteSets, TLC

VARIABLES reserves, inertia, current_profile, anchor_profile, is_sanctuary,
          result, obs, calls, executed, fn_input, fn_output

vars == <<reserves, inertia, current_profile, anchor_profile, is_sanctuary,
          result, obs, calls, executed, fn_input, fn_output>>

(* ------------------------------ bounds -------------------------------- *)
MaxLen == 2
MaxCalls == 4

(* ------------------------- fixed-point units -------------------------- *)
InertiaScale == 100
LnScale == 10000
Ln2Scaled == 6931

(* --------------------------- ProfileType ------------------------------ *)
ProfileType == {"NEUTRAL", "FLUID", "RIGID", "SANDBOX", "KINETIC"}

Capacity(p) ==
    CASE p = "NEUTRAL" -> 10
      [] p = "FLUID"   -> 40
      [] p = "RIGID"   -> 80
      [] p = "SANDBOX" -> 20
      [] p = "KINETIC" -> 0

Distance(p) ==
    CASE p = "NEUTRAL" -> 0
      [] p = "FLUID"   -> 1
      [] p = "RIGID"   -> 2
      [] p = "SANDBOX" -> 3
      [] p = "KINETIC" -> 10

TRANSITION_COSTS ==
    (<<"NEUTRAL", "FLUID">>   :> 5)  @@
    (<<"NEUTRAL", "RIGID">>   :> 10) @@
    (<<"FLUID", "RIGID">>     :> 15) @@
    (<<"RIGID", "FLUID">>     :> 15) @@
    (<<"FLUID", "SANDBOX">>   :> 20) @@
    (<<"RIGID", "SANDBOX">>   :> 25) @@
    (<<"SANDBOX", "KINETIC">> :> 1000)

DefaultTransitionCost == 50
DriftWeight == 5
InjectionPenalty == 10
EntropyThreshold == 58
LogicBombThreshold == 40
MisalignedDelta == -2

Abs(x) == IF x < 0 THEN -x ELSE x

(* ------------------------------- text --------------------------------- *)
B64_SYSTEM_OVERRIDE == "c3lzdGVtIG92ZXJyaWRl"
B64_UNDECODABLE == "8y98h23r89h23r89hy23r98hy2398ryh2983yr982h3r"
SPLIT_TOKEN_EXPR == "'sys' + 'tem'"

Vocabulary ==
    {"poem", "def ", "ping", "flood", "override", "While True", "act as",
     SPLIT_TOKEN_EXPR, B64_SYSTEM_OVERRIDE, B64_UNDECODABLE}

Texts == UNION {[1..n -> Vocabulary] : n \in 0..MaxLen}

(* entropy in tenths of a bit per character: 0.0 for the empty text *)
EntropyLevels(words) == IF words = <<>> THEN {0} ELSE {45, 60}

ValidInputs ==
    UNION {{[words |-> w, entropy |-> e] : e \in EntropyLevels(w)} : w \in Texts}

Lower(tok) == IF tok = "While True" THEN "while true" ELSE tok

LowerText(text) == [i \in DOMAIN text |-> Lower(text[i])]

Has(text, tok) == \E i \in DOMAIN text : text[i] = tok

RECURSIVE Flatten(_)
Flatten(ss) == IF ss = <<>> THEN <<>> ELSE Head(ss) \o Flatten(Tail(ss))

(* ---------------------------- ThreatMonitor --------------------------- *)
Base64Shaped(tok) == tok \in {B64_SYSTEM_OVERRIDE, B64_UNDECODABLE}

(* base64.b64decode(tok).decode('utf-8'): the decoded text, or "fail" *)
B64Decode(tok) ==
    IF tok = B64_SYSTEM_OVERRIDE THEN <<"system", "override">> ELSE "fail"

detect_obfuscation(text) ==
    LET matches == {i \in DOMAIN text : Base64Shaped(text[i])}
        decoded_text ==
            Flatten([i \in DOMAIN text |->
                IF i \in matches /\ B64Decode(text[i]) # "fail"
                THEN B64Decode(text[i]) ELSE <<text[i]>>])
    IN  IF matches = {} THEN <<FALSE, text>> ELSE <<TRUE, decoded_text>>

(* ast.parse succeeds on the empty text and on a lone expression *)
PyExpressions ==
    {"poem", "ping", "flood", "override", "system", SPLIT_TOKEN_EXPR,
     B64_SYSTEM_OVERRIDE}

ParsesAsPython(text) ==
    text = <<>> \/ (Len(text) = 1 /\ text[1] \in PyExpressions)

scan_ast_structure(text) ==
    ParsesAsPython(text) /\ Has(text, SPLIT_TOKEN_EXPR)

check_logic_bomb(text) ==
    LET t == LowerText(text)
        score == (IF Has(t, "while true") THEN 50 ELSE 0)
               + (IF Has(t, "recursion") /\ ~Has(t, "limit") THEN 30 ELSE 0)
               + (IF Has(t, "fork bomb") THEN 100 ELSE 0)
    IN  score > LogicBombThreshold

InjectionPatterns ==
    {"ignore previous instructions", "act as", "you are now", "alpha mode",
     "developer mode"}

check_prompt_injection(text) ==
    \E p \in InjectionPatterns : Has(LowerText(text), p)

(* ------------------------------ HelicalEngine ------------------------- *)
StartReserves == {30, 900, 1000}
StartInertia == {5, 10, 100}

Self ==
    [reserves |-> reserves, inertia |-> inertia,
     current_profile |-> current_profile, anchor_profile |-> anchor_profile,
     is_sanctuary |-> is_sanctuary]

(* mutant: the code-syntax rule is tried before the network-probe rule *)
_classify_vector_code_first(text) ==
    LET t == LowerText(text) IN
    IF Has(t, "override") \/ Has(t, "delete") \/ Has(t, "rm -rf")
    THEN <<"KINETIC", 1000>>
    ELSE IF Has(t, "def ") \/ Has(t, "import ") \/ Has(t, "class ")
    THEN <<"RIGID", 30>>
    ELSE IF Has(t, "ping") \/ Has(t, "curl") \/ Has(t, "connect")
    THEN IF Has(t, "flood") \/ Has(t, "stress")
         THEN <<"KINETIC", 1000>>
         ELSE <<"SANDBOX", 50>>
    ELSE <<"FLUID", 10>>

_classify_vector(text) ==
    LET t == LowerText(text) IN
    IF Has(t, "override") \/ Has(t, "delete") \/ Has(t, "rm -rf")
    THEN <<"KINETIC", 1000>>
    ELSE IF Has(t, "ping") \/ Has(t, "curl") \/ Has(t, "connect")
    THEN IF Has(t, "flood") \/ Has(t, "stress")
         THEN <<"KINETIC", 1000>>
         ELSE <<"SANDBOX", 50>>
    ELSE IF Has(t, "def ") \/ Has(t, "import ") \/ Has(t, "class ")
    THEN <<"RIGID", 30>>
    ELSE <<"FLUID", 10>>

(* Equation 1 as an exact fraction; q in twentieths.  h_rival <= 0 is      *)
(* replaced by 0.1, i.e. the quotient is multiplied by 10.                 *)
_calculate_existence_potential(s, q, profile, h_rival) ==
    LET r_a == s.reserves
        h_a == Capacity(profile)
    IN  IF h_rival <= 0
        THEN <<q * (h_a + r_a) * 10, 20>>
        ELSE <<q * (h_a + r_a), 20 * h_rival>>

Pow2(k) == 2 ^ k

(* math.log(num / den) in units of 1/InertiaScale, for num/den > 0.5:      *)
(* num/den = 2^(k-1) * m with 1 <= m < 2, ln m = 2 atanh((m-1)/(m+1)).     *)
MathLog(num, den) ==
    LET k  == CHOOSE j \in 0..20 :
                 Pow2(j) * den <= 2 * num /\ 2 * num < Pow2(j + 1) * den
        m  == (2 * num * LnScale) \div (Pow2(k) * den)
        z  == ((m - LnScale) * LnScale) \div (m + LnScale)
        z2 == (z * z) \div LnScale
        z3 == (z * z2) \div LnScale
        z5 == (z3 * z2) \div LnScale
        z7 == (z5 * z2) \div LnScale
        lnm == 2 * (z + (z3 \div 3) + (z5 \div 5) + (z7 \div 7))
        ln == (k - 1) * Ln2Scaled + lnm
        unit == LnScale \div InertiaScale
    IN  (ln + (unit \div 2)) \div unit

(* mutant: the lock is set but the inertia is left as it was *)
_trigger_sanctuary_keeps_inertia(s) ==
    [s EXCEPT !.is_sanctuary = TRUE]

_trigger_sanctuary(s) ==
    [s EXCEPT !.is_sanctuary = TRUE, !.inertia = 0]

(* mutant: the drift is measured from the current profile's distance *)
total_burn_relative(current, target_profile, anchor) ==
    LET pair == <<current, target_profile>>
        base_cost == IF pair \in DOMAIN TRANSITION_COSTS
                     THEN TRANSITION_COSTS[pair]
                     ELSE DefaultTransitionCost
        drift_penalty ==
            Abs(Abs(Distance(target_profile) - Distance(anchor))
                - Abs(Distance(current) - Distance(anchor))) * DriftWeight
    IN  (base_cost + drift_penalty) * InertiaScale

(* mutant: the drift penalty is left out of the burn *)
total_burn_no_drift(current, target_profile, anchor) ==
    LET pair == <<current, target_profile>>
        base_cost == IF pair \in DOMAIN TRANSITION_COSTS
                     THEN TRANSITION_COSTS[pair]
                     ELSE DefaultTransitionCost
    IN  base_cost * InertiaScale

(* lines 222-230: base transition cost plus drift penalty, in inertia units *)
total_burn(current, target_profile, anchor) ==
    LET pair == <<current, target_profile>>
        base_cost == IF pair \in DOMAIN TRANSITION_COSTS
                     THEN TRANSITION_COSTS[pair]
                     ELSE DefaultTransitionCost
        current_dist == Distance(target_profile)
        origin_dist == Distance(anchor)
        drift_penalty == Abs(current_dist - origin_dist) * DriftWeight
    IN  (base_cost + drift_penalty) * InertiaScale

(* mutant: the transition needs strictly more inertia than it burns *)
_manage_inertia_physics_strict(s, target_profile, e_a) ==
    IF target_profile = s.current_profile
    THEN LET mass_delta ==
                 IF 2 * e_a[1] > e_a[2]
                 THEN MathLog(e_a[1], e_a[2])
                 ELSE MisalignedDelta * InertiaScale
         IN  <<TRUE, [s EXCEPT !.inertia = s.inertia + mass_delta]>>
    ELSE LET burn == total_burn(s.current_profile, target_profile, s.anchor_profile)
         IN  IF s.inertia > burn
             THEN <<TRUE, [s EXCEPT !.inertia = s.inertia - burn,
                                    !.current_profile = target_profile]>>
             ELSE <<FALSE, _trigger_sanctuary(s)>>

(* <<whether the step succeeded, the session afterwards>> *)
_manage_inertia_physics(s, target_profile, e_a) ==
    IF target_profile = s.current_profile
    THEN LET mass_delta ==
                 IF 2 * e_a[1] > e_a[2]
                 THEN MathLog(e_a[1], e_a[2])
                 ELSE MisalignedDelta * InertiaScale
         IN  <<TRUE, [s EXCEPT !.inertia = s.inertia + mass_delta]>>
    ELSE LET burn == total_burn(s.current_profile, target_profile, s.anchor_profile)
         IN  IF s.inertia >= burn
             THEN <<TRUE, [s EXCEPT !.inertia = s.inertia - burn,
                                    !.current_profile = target_profile]>>
             ELSE <<FALSE, _trigger_sanctuary(s)>>

(* mutant: the difference is computed but not stored *)
_execute_task_no_debit(s, cost) == [s EXCEPT !.reserves = s.reserves]

_execute_task(s, cost) == [s EXCEPT !.reserves = s.reserves - cost]

(* Every phase yields <<the session afterwards, how the call ended>>.      *)

(* mutant: the task is executed without the solvency check *)
Phase4_Unchecked(s, h_rival) ==
    <<_execute_task(s, h_rival), "EXECUTED">>

(* mutant: insolvency triggers the sanctuary protocol *)
Phase4_InsolvencyLocks(s, h_rival) ==
    IF h_rival > s.reserves
    THEN <<_trigger_sanctuary(s), "INSOLVENT">>
    ELSE <<_execute_task(s, h_rival), "EXECUTED">>

(* PHASE 4 and 5: solvency verification, then execution *)
Phase4_Solvency(s, h_rival) ==
    IF h_rival > s.reserves
    THEN <<s, "INSOLVENT">>
    ELSE <<_execute_task(s, h_rival), "EXECUTED">>

(* mutant: no return after a failed inertial management *)
Phase2_FallsThrough(s, q_factor, clear_text) ==
    LET cv == _classify_vector(clear_text)
        target_profile == cv[1]
        h_rival == cv[2]
        e_a == _calculate_existence_potential(s, q_factor, s.current_profile, h_rival)
        m == _manage_inertia_physics(s, target_profile, e_a)
    IN  Phase4_Solvency(m[2], h_rival)

(* mutant: an insolvent call gives back the session it started with *)
Phase2_RollsBack(s, q_factor, clear_text) ==
    LET cv == _classify_vector(clear_text)
        target_profile == cv[1]
        h_rival == cv[2]
        e_a == _calculate_existence_potential(s, q_factor, s.current_profile, h_rival)
        m == _manage_inertia_physics(s, target_profile, e_a)
    IN  IF ~m[1]
        THEN <<m[2], "BANKRUPT">>
        ELSE IF h_rival > s.reserves
        THEN <<s, "INSOLVENT">>
        ELSE Phase4_Solvency(m[2], h_rival)

(* PHASE 2 and 3: classification, Equation 1, inertial management *)
Phase2_Physics(s, q_factor, clear_text) ==
    LET cv == _classify_vector(clear_text)
        target_profile == cv[1]
        h_rival == cv[2]
        e_a == _calculate_existence_potential(s, q_factor, s.current_profile, h_rival)
        m == _manage_inertia_physics(s, target_profile, e_a)
    IN  IF ~m[1]
        THEN <<m[2], "BANKRUPT">>
        ELSE Phase4_Solvency(m[2], h_rival)

(* mutant: the logic bomb check is skipped *)
Phase1_NoLogicBombCheck(s, user_input) ==
    LET obf == detect_obfuscation(user_input.words)
        is_obfuscated == obf[1]
        clear_text == obf[2]
        q1 == IF is_obfuscated THEN 10 ELSE 20
    IN
    IF scan_ast_structure(clear_text)
    THEN <<_trigger_sanctuary(s), "AST_VIOLATION">>
    ELSE
    LET injected == check_prompt_injection(clear_text)
        s1 == IF injected
              THEN [s EXCEPT !.inertia = s.inertia - InjectionPenalty * InertiaScale]
              ELSE s
        q2 == IF injected THEN 2 ELSE q1
        q_factor == IF user_input.entropy > EntropyThreshold THEN 1 ELSE q2
    IN  Phase2_Physics(s1, q_factor, clear_text)

(* mutant: an injection attempt downgrades q but costs no inertia *)
Phase1_InjectionNoPenalty(s, user_input) ==
    LET obf == detect_obfuscation(user_input.words)
        is_obfuscated == obf[1]
        clear_text == obf[2]
        q1 == IF is_obfuscated THEN 10 ELSE 20
    IN
    IF scan_ast_structure(clear_text)
    THEN <<_trigger_sanctuary(s), "AST_VIOLATION">>
    ELSE IF check_logic_bomb(clear_text)
    THEN <<_trigger_sanctuary(s), "LOGIC_BOMB">>
    ELSE
    LET injected == check_prompt_injection(clear_text)
        q2 == IF injected THEN 2 ELSE q1
        q_factor == IF user_input.entropy > EntropyThreshold THEN 1 ELSE q2
    IN  Phase2_Physics(s, q_factor, clear_text)

(* mutant: the injection downgrade compounds with the obfuscation one *)
Phase1_QCompounds(s, user_input) ==
    LET obf == detect_obfuscation(user_input.words)
        is_obfuscated == obf[1]
        clear_text == obf[2]
        q1 == IF is_obfuscated THEN 10 ELSE 20
    IN
    IF scan_ast_structure(clear_text)
    THEN <<_trigger_sanctuary(s), "AST_VIOLATION">>
    ELSE IF check_logic_bomb(clear_text)
    THEN <<_trigger_sanctuary(s), "LOGIC_BOMB">>
    ELSE
    LET injected == check_prompt_injection(clear_text)
        s1 == IF injected
              THEN [s EXCEPT !.inertia = s.inertia - InjectionPenalty * InertiaScale]
              ELSE s
        q2 == IF injected THEN q1 \div 10 ELSE q1
        q_factor == IF user_input.entropy > EntropyThreshold THEN 1 ELSE q2
    IN  Phase2_Physics(s1, q_factor, clear_text)

(* PHASE 1: threat detection on the decoded text *)
Phase1_PreProcessing(s, user_input) ==
    LET obf == detect_obfuscation(user_input.words)
        is_obfuscated == obf[1]
        clear_text == obf[2]
        q1 == IF is_obfuscated THEN 10 ELSE 20
    IN
    IF scan_ast_structure(clear_text)
    THEN <<_trigger_sanctuary(s), "AST_VIOLATION">>
    ELSE IF check_logic_bomb(clear_text)
    THEN <<_trigger_sanctuary(s), "LOGIC_BOMB">>
    ELSE
    LET injected == check_prompt_injection(clear_text)
        s1 == IF injected
              THEN [s EXCEPT !.inertia = s.inertia - InjectionPenalty * InertiaScale]
              ELSE s
        q2 == IF injected THEN 2 ELSE q1
        q_factor == IF user_input.entropy > EntropyThreshold THEN 1 ELSE q2
    IN  Phase2_Physics(s1, q_factor, clear_text)

(* mutant: a rejected call clears the sanctuary flag *)
process_input_unlocks(s, user_input) ==
    IF s.is_sanctuary
    THEN <<[s EXCEPT !.is_sanctuary = FALSE], "REJECTED">>
    ELSE Phase1_PreProcessing(s, user_input)

(* mutant: no sanctuary gate *)
process_input_ungated(s, user_input) ==
    Phase1_PreProcessing(s, user_input)

process_input(s, user_input) ==
    IF s.is_sanctuary
    THEN <<s, "REJECTED">>
    ELSE Phase1_PreProcessing(s, user_input)

(* What process_input reads of its argument: the verdicts of the scans and  *)
(* of the classifier on the decoded text.                                  *)
Features(user_input) ==
    LET obf == detect_obfuscation(user_input.words)
        clear_text == obf[2]
    IN  [is_obfuscated |-> obf[1],
         smuggled |-> scan_ast_structure(clear_text),
         bomb     |-> check_logic_bomb(clear_text),
         injected |-> check_prompt_injection(clear_text),
         noisy    |-> user_input.entropy > EntropyThreshold,
         target   |-> _classify_vector(clear_text)[1],
         cost     |-> _classify_vector(clear_text)[2]]

InputClasses == {Features(u) : u \in ValidInputs}

(* one input of every class: the calls the model makes *)
Representatives ==
    {CHOOSE u \in ValidInputs : Features(u) = f : f \in InputClasses}

NoCall == [is_obfuscated |-> FALSE, smuggled |-> FALSE, bomb |-> FALSE,
           injected |-> FALSE, noisy |-> FALSE, target |-> "NEUTRAL",
           cost |-> 0]

NoOutput == [fn |-> "none", value |-> <<>>]

Init ==
    /\ reserves \in StartReserves
    /\ inertia \in {i * InertiaScale : i \in StartInertia}
    /\ current_profile = "NEUTRAL"
    /\ anchor_profile = "NEUTRAL"
    /\ is_sanctuary = FALSE
    /\ result = "NEW"
    /\ obs = NoCall
    /\ calls = 0
    /\ executed = 0
    /\ fn_input = <<>>
    /\ fn_output = NoOutput

ProcessInput ==
    /\ calls < MaxCalls
    /\ \E user_input \in Representatives :
         \E r \in {process_input(Self, user_input)} :
            /\ reserves' = r[1].reserves
            /\ inertia' = r[1].inertia
            /\ current_profile' = r[1].current_profile
            /\ anchor_profile' = r[1].anchor_profile
            /\ is_sanctuary' = r[1].is_sanctuary
            /\ result' = r[2]
            /\ executed' = executed + (IF r[2] = "EXECUTED" THEN 1 ELSE 0)
            /\ obs' = Features(user_input)
    /\ calls' = calls + 1
    /\ UNCHANGED <<fn_input, fn_output>>

Next == ProcessInput

Spec == Init /\ [][Next]_vars

(* ---- the pure functions on their own: one text, one function applied ---- *)
ClassifyKeywords ==
    {"override", "rm -rf", "ping", "connect", "flood", "stress", "def ",
     "class ", "poem"}

RECURSIVE SetToSeq(_)
SetToSeq(S) ==
    IF S = {} THEN <<>>
    ELSE LET x == CHOOSE y \in S : TRUE IN <<x>> \o SetToSeq(S \ {x})

(* every combination of the classifier's keywords, and the session's texts *)
PureTexts == {SetToSeq(S) : S \in SUBSET ClassifyKeywords} \cup Texts

PureInit ==
    /\ fn_input \in PureTexts
    /\ fn_output = NoOutput
    /\ reserves = 0
    /\ inertia = 0
    /\ current_profile = "NEUTRAL"
    /\ anchor_profile = "NEUTRAL"
    /\ is_sanctuary = FALSE
    /\ result = "NEW"
    /\ obs = NoCall
    /\ calls = 0
    /\ executed = 0

ApplyClassify ==
    /\ fn_output.fn = "none"
    /\ fn_output' = [fn |-> "_classify_vector", value |-> _classify_vector(fn_input)]
    /\ UNCHANGED <<reserves, inertia, current_profile, anchor_profile,
                   is_sanctuary, result, obs, calls, executed, fn_input>>

ApplyDetectObfuscation ==
    /\ fn_output.fn = "none"
    /\ fn_output' = [fn |-> "detect_obfuscation", value |-> detect_obfuscation(fn_input)]
    /\ UNCHANGED <<reserves, inertia, current_profile, anchor_profile,
                   is_sanctuary, result, obs, calls, executed, fn_input>>

PureNext == ApplyClassify \/ ApplyDetectObfuscation

SpecPure == PureInit /\ [][PureNext]_vars

(* process_input depends on its argument through Features only *)
RepresentativesSuffice ==
    \A u \in ValidInputs :
        \E v \in Representatives :
            /\ Features(v) = Features(u)
            /\ process_input(Self, v) = process_input(Self, u)

TypeOK ==
    /\ reserves \in Int
    /\ inertia \in Int
    /\ current_profile \in ProfileType
    /\ anchor_profile = "NEUTRAL"
    /\ is_sanctuary \in BOOLEAN
    /\ calls \in 0..MaxCalls

(* ------------------------------ properties ---------------------------- *)
(* a step that is a process_input call *)
Called == calls' = calls + 1

(* the call was not stopped by the AST or the logic bomb scan *)
PassedScans == ~obs'.smuggled /\ ~obs'.bomb

(* inertia left for the transition step, after the injection penalty *)
InertiaAtTransition ==
    inertia - (IF obs'.injected THEN InjectionPenalty * InertiaScale ELSE 0)

TableCost(from, to) ==
    IF <<from, to>> \in DOMAIN TRANSITION_COSTS
    THEN TRANSITION_COSTS[<<from, to>>]
    ELSE 50

(* the charge as in C6: drift from both profiles' distances to the anchor *)
ClaimedCharge(from, to, anchor) ==
    (TableCost(from, to)
     + 5 * Abs(Abs(Distance(to) - Distance(anchor))
               - Abs(Distance(from) - Distance(anchor)))) * InertiaScale

(* the charge as amended: drift from the target's distance only *)
AmendedCharge(from, to, anchor) ==
    (TableCost(from, to)
     + 5 * Abs(Distance(to) - Distance(anchor))) * InertiaScale

(* C1: a call on an unlocked session whose decoded text classifies as      *)
(* Kinetic ends locked, with inertia 0, reserves unchanged and the current *)
(* profile not Kinetic.                                                    *)
C1_KineticAlwaysLocks ==
    [][(Called /\ ~is_sanctuary /\ obs'.target = "KINETIC")
        => /\ is_sanctuary'
           /\ inertia' = 0
           /\ reserves' = reserves
           /\ current_profile' # "KINETIC"]_vars

(* C2: the lock is absorbing: once is_sanctuary is true it stays true.     *)
C2_LockAbsorbing == [][is_sanctuary => is_sanctuary']_vars

C2_Witness ==
    is_sanctuary /\ result = "REJECTED" /\ obs.target = "FLUID" /\ ~obs.injected

(* C3: a call on a locked session is rejected at the gate and leaves       *)
(* reserves, inertia and the current profile as they were.                 *)
C3_LockedCallFrozen ==
    [][(Called /\ is_sanctuary)
        => /\ result' = "REJECTED"
           /\ reserves' = reserves
           /\ inertia' = inertia
           /\ current_profile' = current_profile]_vars

C3_Witness == is_sanctuary /\ result = "REJECTED" /\ obs.injected

(* C4: reserves never go below zero (the start reserves are >= 0).         *)
C4_ReservesNonNegative == reserves >= 0

C4_Witness == result = "EXECUTED" /\ reserves = 0

(* C5: on a call whose classified profile differs from the current one: if *)
(* the inertia covers the total burn it decreases by exactly that much,    *)
(* stays >= 0 and the profile becomes the target; otherwise the session is *)
(* locked with inertia 0 and profile and reserves unchanged.               *)
C5_TransitionOrBankruptcy ==
    [][(Called /\ ~is_sanctuary /\ PassedScans /\ obs'.target # current_profile)
        => LET total == AmendedCharge(current_profile, obs'.target, anchor_profile)
           IN  IF InertiaAtTransition >= total
               THEN /\ inertia' = InertiaAtTransition - total
                    /\ inertia' >= 0
                    /\ current_profile' = obs'.target
                    /\ ~is_sanctuary'
               ELSE /\ is_sanctuary'
                    /\ inertia' = 0
                    /\ current_profile' = current_profile
                    /\ reserves' = reserves]_vars

(* a lock by bankruptcy on a later switch, after a switch that succeeded *)
C5_Witness ==
    result = "BANKRUPT" /\ is_sanctuary /\ inertia = 0 /\ current_profile = "RIGID"

(* a switch of profile that the call committed *)
SuccessfulSwitch ==
    Called /\ ~is_sanctuary /\ ~is_sanctuary' /\ current_profile' # current_profile

(* C6 as stated: the inertia charged for a transition is the table cost    *)
(* plus 5 * |distance(target, anchor) - distance(current, anchor)|.        *)
C6_ChargeAsClaimed ==
    [][SuccessfulSwitch
        => inertia' = InertiaAtTransition
                      - ClaimedCharge(current_profile, current_profile', anchor_profile)]_vars

(* C6 amended: the inertia charged for a transition is the table cost      *)
(* (default 50) plus 5 * |distance(target) - distance(anchor)|, whatever   *)
(* the current profile's distance.                                         *)
C6_ChargeAmended ==
    [][SuccessfulSwitch
        => inertia' = InertiaAtTransition
                      - AmendedCharge(current_profile, current_profile', anchor_profile)]_vars

(* Neutral -> Fluid (10) then Fluid -> Rigid (15 + 10) from inertia 100 *)
C6_Witness ==
    current_profile = "RIGID" /\ ~is_sanctuary /\ inertia = 65 * InertiaScale

(* C7: a locked session has inertia 0.                                     *)
C7_LockedInertiaZero == is_sanctuary => inertia = 0

C7_Witness == is_sanctuary /\ result = "AST_VIOLATION" /\ inertia = 0

(* C8: a call that reaches the solvency check with cost > reserves is      *)
(* rejected as insolvent, leaves reserves unchanged and does not lock.     *)
C8_InsolventNoChange ==
    [][Called
        => /\ (~is_sanctuary /\ PassedScans /\ result' # "BANKRUPT"
               /\ obs'.cost > reserves)
              => (result' = "INSOLVENT" /\ reserves' = reserves /\ ~is_sanctuary')
           /\ result' = "INSOLVENT"
              => (obs'.cost > reserves /\ reserves' = reserves /\ ~is_sanctuary')]_vars

C8_Witness == result = "INSOLVENT" /\ ~is_sanctuary /\ obs.cost > reserves

(* C9: a call that ends with the session locked leaves reserves unchanged. *)
C9_LockedCallKeepsReserves ==
    [][(Called /\ is_sanctuary') => reserves' = reserves]_vars

(* locked by bankruptcy although the reserves covered the cost *)
C9_Witness == is_sanctuary /\ result = "BANKRUPT" /\ obs.cost <= reserves

(* C10: on an unlocked session an input flagged by the AST scan or by the  *)
(* logic bomb scan locks the session in that call, before the injection    *)
(* penalty, the classification, the transition and the execution.          *)
C10_FlaggedInputLocks ==
    [][(Called /\ ~is_sanctuary /\ (obs'.smuggled \/ obs'.bomb))
        => /\ result' \in {"AST_VIOLATION", "LOGIC_BOMB"}
           /\ is_sanctuary'
           /\ inertia' = 0
           /\ reserves' = reserves
           /\ current_profile' = current_profile]_vars

(* a logic bomb that also carries an injection phrase *)
C10_Witness == is_sanctuary /\ result = "LOGIC_BOMB" /\ obs.injected

(* the base64 encoding of "system override" and the same words in plain *)
EncodedInput(e) == [words |-> <<B64_SYSTEM_OVERRIDE>>, entropy |-> e]
PlainInput(e) == [words |-> <<"system", "override">>, entropy |-> e]

(* C11: in every session state the base64-encoded Kinetic keyword and the  *)
(* keyword in plain text leave the same lock flag, inertia, reserves and   *)
(* current profile, and the encoded input classifies as Kinetic.           *)
C11_EncodedSameAsPlain ==
    \A e \in {45, 60} :
        /\ process_input(Self, EncodedInput(e))[1] = process_input(Self, PlainInput(e))[1]
        /\ Features(EncodedInput(e)).target = "KINETIC"

(* the inertia an aligned call adds: ln(E) when E > 0.5, else -2, with     *)
(* E = q * (capacity + reserves) / cost and q in twentieths                *)
ExpectedMassDelta(q, profile, res, cost) ==
    IF 2 * q * (Capacity(profile) + res) > 20 * cost
    THEN MathLog(q * (Capacity(profile) + res), 20 * cost)
    ELSE -2 * InertiaScale

(* C12 as stated: a call on an unlocked session whose only anomaly is an   *)
(* injection phrase ends with the session still unlocked.                  *)
C12_InjectionNeverLocks ==
    [][(Called /\ ~is_sanctuary /\ PassedScans /\ obs'.injected
        /\ ~obs'.is_obfuscated /\ ~obs'.noisy /\ obs'.target # "KINETIC")
        => ~is_sanctuary']_vars

(* C12 amended: an injection phrase that passes the AST and logic bomb     *)
(* scans takes 10 off the inertia before the transition step and lowers q  *)
(* to 0.1 (0.05 with high entropy); the injection check itself does not    *)
(* lock: an aligned call ends unlocked, and a call that switches profile   *)
(* ends locked exactly when the reduced inertia is below the charge.       *)
C12_InjectionPenalised ==
    [][(Called /\ ~is_sanctuary /\ PassedScans /\ obs'.injected)
        => LET avail == inertia - 10 * InertiaScale
               q == IF obs'.noisy THEN 1 ELSE 2
               charge == AmendedCharge(current_profile, obs'.target, anchor_profile)
           IN  IF obs'.target = current_profile
               THEN /\ ~is_sanctuary'
                    /\ inertia' = avail + ExpectedMassDelta(q, current_profile,
                                                            reserves, obs'.cost)
               ELSE IF avail >= charge
               THEN ~is_sanctuary' /\ inertia' = avail - charge
               ELSE is_sanctuary' /\ result' = "BANKRUPT"]_vars

(* an aligned call with an injection phrase: penalised, not locked *)
C12_Witness ==
    ~is_sanctuary /\ obs.injected /\ ~obs.is_obfuscated /\ ~obs.noisy /\ inertia < 0

(* a text of w plain words: no threat indicator, classified Fluid *)
PlainWords(w) == [words |-> [i \in 1..w |-> "poem"], entropy |-> 45]

(* C13: an authorized Fluid input of w words with no threat indicator      *)
(* costs 0.5 * w, and reserves decrease by exactly that amount.            *)
C13_FluidCostPerWord ==
    \A w \in 1..MaxLen :
        LET r == process_input(Self, PlainWords(w)) IN
        (~is_sanctuary /\ r[2] = "EXECUTED") => 2 * (reserves - r[1].reserves) = w

(* some base64-shaped token of the text decodes (base64, then UTF-8) *)
SomeTokenDecodes(text) ==
    \E i \in DOMAIN text : Base64Shaped(text[i]) /\ B64Decode(text[i]) # "fail"

(* C14: detect_obfuscation returns found = true if and only if at least    *)
(* one base64-shaped token decoded; when none does it returns found =      *)
(* false with the text unchanged.                                          *)
C14_FoundIffDecoded ==
    fn_output.fn = "detect_obfuscation"
    => /\ fn_output.value[1] <=> SomeTokenDecodes(fn_input)
       /\ ~SomeTokenDecodes(fn_input) => fn_output.value = <<FALSE, fn_input>>

(* Q as in C16, in twentieths: 0.05, else 0.1, else 0.5, else 1.0 *)
ClaimedQ(o) ==
    IF o.noisy THEN 1
    ELSE IF o.injected THEN 2
    ELSE IF o.is_obfuscated THEN 10
    ELSE 20

(* C16: the quality factor is set by overwrite in scan order: 0.05 if the  *)
(* entropy exceeds the threshold, else 0.1 if injection was detected, else *)
(* 0.5 if obfuscation was detected, else 1.0.  Q only acts through the     *)
(* existence potential, hence through the mass delta of an aligned call.   *)
C16_QualityOverwrite ==
    [][(Called /\ ~is_sanctuary /\ PassedScans /\ obs'.target = current_profile)
        => inertia' = InertiaAtTransition
                      + ExpectedMassDelta(ClaimedQ(obs'), current_profile,
                                          reserves, obs'.cost)]_vars

(* an aligned call whose input was both obfuscated and an injection: only  *)
(* an aligned call leaves an unlocked session with negative inertia        *)
C16_Witness ==
    /\ ~is_sanctuary /\ inertia < 0
    /\ obs.is_obfuscated /\ obs.injected /\ ~obs.noisy

HasAny(text, keywords) == \E k \in keywords : Has(LowerText(text), k)

(* C17: classify is an ordered cascade, first match wins: a Kinetic        *)
(* keyword gives Kinetic; else a network-probe keyword gives Kinetic with  *)
(* a velocity indicator and Sandbox without, even with code keywords;      *)
(* else a code keyword gives Rigid; else Fluid.  Never Neutral.            *)
C17_ClassifyCascade ==
    fn_output.fn = "_classify_vector"
    => LET kinetic == HasAny(fn_input, {"override", "delete", "rm -rf"})
           probe == HasAny(fn_input, {"ping", "curl", "connect"})
           fast == HasAny(fn_input, {"flood", "stress"})
           code == HasAny(fn_input, {"def ", "import ", "class "})
       IN  /\ fn_output.value[1] =
                 (IF kinetic THEN "KINETIC"
                  ELSE IF probe THEN (IF fast THEN "KINETIC" ELSE "SANDBOX")
                  ELSE IF code THEN "RIGID"
                  ELSE "FLUID")
           /\ fn_output.value[1] # "NEUTRAL"

(* a probe keyword together with a code keyword: Sandbox, not Rigid *)
C17_Witness ==
    /\ fn_output.fn = "_classify_vector"
    /\ fn_output.value[1] = "SANDBOX"
    /\ Has(fn_input, "ping") /\ Has(fn_input, "def ")

(* C18: a session created with start inertia < 10 is locked by its first   *)
(* call, whatever the input, and its reserves are never debited.           *)
C18_LowInertiaLocksAtOnce ==
    \A r \in StartReserves :
        (calls = 0 /\ reserves = r /\ inertia < 10 * InertiaScale)
        => [](reserves = r /\ (calls >= 1 => is_sanctuary))

(* first call, plain Fluid input, inertia below the Neutral -> Fluid burn *)
C18_Witness ==
    /\ calls = 1 /\ is_sanctuary /\ result = "BANKRUPT"
    /\ obs.target = "FLUID" /\ ~obs.injected

(* C19: a call rejected for insolvency leaves reserves unchanged but keeps *)
(* the profile switch and the inertia change made earlier in the call      *)
(* (injection penalty, then alignment delta or transition debit).          *)
C19_InsolventKeepsInertia ==
    [][(Called /\ result' = "INSOLVENT")
        => /\ reserves' = reserves
           /\ current_profile' = obs'.target
           /\ inertia' = InertiaAtTransition
                 + (IF obs'.target = current_profile
                    THEN ExpectedMassDelta(ClaimedQ(obs'), current_profile,
                                           reserves, obs'.cost)
                    ELSE -AmendedCharge(current_profile, obs'.target,
                                        anchor_profile))]_vars

(* inertia driven below zero by calls none of which was executed *)
C19_Witness ==
    /\ executed = 0 /\ calls >= 2 /\ result = "INSOLVENT"
    /\ ~is_sanctuary /\ inertia < 0

(* C20: reserves never increase, a call that is not executed leaves them   *)
(* unchanged and an executed call debits at least 10, so a session with    *)
(* start reserves r executes at most r \div 10 calls.                      *)
C20_ExecutionsBounded ==
    /\ [][/\ reserves' <= reserves
          /\ (Called /\ result' # "EXECUTED") => reserves' = reserves
          /\ (Called /\ result' = "EXECUTED") => reserves' <= reserves - 10]_vars
    /\ \A r \in StartReserves :
           (calls = 0 /\ reserves = r)
           => [](10 * executed <= r - reserves /\ executed <= r \div 10)

(* start reserves 30: three executed calls, then a call that is rejected *)
C20_Witness ==
    executed = 3 /\ reserves = 0 /\ result = "INSOLVENT" /\ ~is_sanctuary
====
